---- MODULE Spec2Model ----
(***************************************************************************)
(* A model of project_concatenator.py: the selection pass (search_files),  *)
(* the content dump (create_aggregated_file) and the tree rendering        *)
(* (append_directory_structure), driven by main().                         *)
(*                                                                         *)
(* Strings of the program (paths, file names, type patterns) are sequences *)
(* of one-character strings, so that suffix tests, path joining, splitting *)
(* on os.sep and the ordinal comparison used by list.sort() are computed   *)
(* character by character, as Python computes them.                        *)
(***************************************************************************)
EXTENDS Naturals, Sequences, FiniteSets, TLC

(***************************************************************************)
(* Bounds of the model.                                                    *)
(***************************************************************************)
\* longest list given to -t/--types
MaxTypes == 2
\* how many reads of input files may fail during one run
MaxBad == 1

(***************************************************************************)
(* Characters and strings.                                                 *)
(***************************************************************************)
\* The characters that occur, in ascending code point order
\* ('.' 46 < '/' 47 < 'A'..'Z' < '_' 95 < 'a'..'z').
Alphabet ==
    << ".", "/", "D", "E", "M", "R", "_",
       "a", "b", "c", "d", "e", "f", "g", "h", "i", "j", "k", "l", "m",
       "n", "o", "p", "q", "r", "s", "t", "u", "v", "w", "x", "y", "z" >>

\* the rank of a character: order-isomorphic to Python's ord() on Alphabet
Ord(c) == CHOOSE i \in 1..Len(Alphabet) : Alphabet[i] = c

\* os.sep on the platforms the script's paths are written for
Sep == "/"

\* str.__lt__: ordinal comparison, a proper prefix is smaller
RECURSIVE StrLess(_, _)
StrLess(a, b) ==
    IF b = << >> THEN FALSE
    ELSE IF a = << >> THEN TRUE
    ELSE IF Head(a) # Head(b) THEN Ord(Head(a)) < Ord(Head(b))
    ELSE StrLess(Tail(a), Tail(b))

\* str.endswith
EndsWith(s, suffix) ==
    /\ Len(suffix) <= Len(s)
    /\ SubSeq(s, Len(s) - Len(suffix) + 1, Len(s)) = suffix

\* str.split(sep) for a one-character separator: the list of pieces
RECURSIVE SplitAcc(_, _, _)
SplitAcc(s, cur, acc) ==
    IF s = << >> THEN Append(acc, cur)
    ELSE IF Head(s) = Sep THEN SplitAcc(Tail(s), << >>, Append(acc, cur))
    ELSE SplitAcc(Tail(s), Append(cur, Head(s)), acc)

Split(s) == SplitAcc(s, << >>, << >>)

\* sep.join(parts)
RECURSIVE JoinParts(_)
JoinParts(parts) ==
    IF parts = << >> THEN << >>
    ELSE IF Len(parts) = 1 THEN parts[1]
    ELSE parts[1] \o <<Sep>> \o JoinParts(Tail(parts))

\* os.path.isabs
IsAbs(p) == p # << >> /\ Head(p) = Sep

\* os.path.join(a, b) of posixpath
PathJoin(a, b) ==
    IF IsAbs(b) THEN b
    ELSE IF a = << >> \/ a[Len(a)] = Sep THEN a \o b
    ELSE a \o <<Sep>> \o b

\* os.path.basename: what follows the last separator
RECURSIVE Basename(_)
Basename(p) ==
    IF p = << >> THEN << >>
    ELSE IF p[Len(p)] = Sep THEN << >>
    ELSE Append(Basename(SubSeq(p, 1, Len(p) - 1)), p[Len(p)])

Dot == <<".">>
DotDot == <<".", ".">>

\* the component loop of posixpath.normpath: empty and "." components are
\* dropped, ".." removes the component before it (and is dropped at the root)
RECURSIVE NormComps(_, _, _)
NormComps(comps, acc, isabs) ==
    IF comps = << >> THEN acc
    ELSE LET c == Head(comps) IN
         IF c = << >> \/ c = Dot THEN NormComps(Tail(comps), acc, isabs)
         ELSE IF c # DotDot
                 \/ (~isabs /\ acc = << >>)
                 \/ (acc # << >> /\ acc[Len(acc)] = DotDot)
              THEN NormComps(Tail(comps), Append(acc, c), isabs)
         ELSE IF acc # << >>
              THEN NormComps(Tail(comps), SubSeq(acc, 1, Len(acc) - 1), isabs)
         ELSE NormComps(Tail(comps), acc, isabs)

\* posixpath.normpath
NormPath(p) ==
    LET comps == NormComps(Split(p), << >>, IsAbs(p))
        body == JoinParts(comps)
    IN  IF IsAbs(p) THEN <<Sep>> \o body
        ELSE IF body = << >> THEN Dot
        ELSE body

\* os.path.abspath for the process's working directory cwd
AbsPath(cwd, p) == NormPath(IF IsAbs(p) THEN p ELSE PathJoin(cwd, p))

(***************************************************************************)
(* Program constants.                                                      *)
(***************************************************************************)
S_git == <<".", "g", "i", "t">>
S_idea == <<".", "i", "d", "e", "a">>
S_terraform == <<".", "t", "e", "r", "r", "a", "f", "o", "r", "m">>
S_py == <<"p", "y">>
S_txt == <<"t", "x", "t">>
S_yml == <<"y", "m", "l">>
S_Dockerfile == <<"D", "o", "c", "k", "e", "r", "f", "i", "l", "e">>
S_init_sql == <<"i", "n", "i", "t", ".", "s", "q", "l">>
S_README_md == <<"R", "E", "A", "D", "M", "E", ".", "m", "d">>
S_tf == <<"t", "f">>
S_md == <<"m", "d">>
S_concatenated_project_txt ==
    <<"c", "o", "n", "c", "a", "t", "e", "n", "a", "t", "e", "d", "_", "p", "r", "o", "j", "e", "c", "t", ".", "t", "x", "t">>

EXCLUDED_DIRS == { S_git, S_idea, S_terraform }

\* main(): the type patterns used when -t is not given
DefaultTypes ==
    << S_py, S_txt, S_yml, S_Dockerfile, S_init_sql, S_README_md, S_tf >>

\* the number of dashes of a delimiter line
DelimWidth == 60

\* An option that was not given on the command line.  main() tests options
\* for truth, which None, the empty string and the empty list all fail, so
\* the empty sequence stands for all three.
None == << >>

(***************************************************************************)
(* The file system the program runs on.  A node is the sequence of the     *)
(* names on the way from the root to it; the operating system resolves a   *)
(* path string, relative to the working directory, to a node.              *)
(***************************************************************************)
S_w == <<"w">>
S_sub == <<"s", "u", "b">>
S_o == <<"o">>
S_sub_py == <<"s", "u", "b", ".", "p", "y">>
S_t_txt == <<"t", ".", "t", "x", "t">>
S_b_py == <<"b", ".", "p", "y">>
S_c_py == <<"c", ".", "p", "y">>
S_d_py == <<"d", ".", "p", "y">>
S_pc_py == <<"p", "c", ".", "p", "y">>
S_out_txt == <<"o", "u", "t", ".", "t", "x", "t">>
S_nx == <<"/", "n", "x">>

\* os.getcwd()
Cwd == <<"/", "w">>

\* __file__: the script lies in the working directory
ScriptArg == S_pc_py

\* the node a path string names
Resolve(p) ==
    LET parts == Split(AbsPath(Cwd, p))
    IN  SelectSeq(parts, LAMBDA c : c # << >>)

BaseNode == << S_w >>
SubNode == << S_w, S_sub >>
GitNode == << S_w, S_sub, S_git >>
ObjNode == << S_w, S_sub, S_git, S_o >>

DirNodes == { << >>, BaseNode, SubNode, GitNode, ObjNode }

\* the regular files that every snapshot holds
StaticFiles ==
    { << S_w, S_sub_py >>, << S_w, S_t_txt >>, << S_w, S_pc_py >>,
      << S_w, S_sub, S_b_py >>,
      << S_w, S_sub, S_git, S_c_py >>,
      << S_w, S_sub, S_git, S_o, S_d_py >> }

ReadmeNode == << S_w, S_README_md >>

\* the names a directory may hold, in the order the file system lists them
Order(d) ==
    IF d = << >> THEN << S_w >>
    ELSE IF d = BaseNode
         THEN << S_sub_py, S_pc_py, S_out_txt, S_sub, S_t_txt,
                 S_README_md, S_concatenated_project_txt >>
    ELSE IF d = SubNode THEN << S_git, S_b_py >>
    ELSE IF d = GitNode THEN << S_o, S_c_py >>
    ELSE IF d = ObjNode THEN << S_d_py >>
    ELSE << >>

RECURSIVE Reverse(_)
Reverse(s) == IF s = << >> THEN << >> ELSE Append(Reverse(Tail(s)), Head(s))

\* the type patterns a user gives with -t
Patterns == { S_py, S_md, S_README_md }

RECURSIVE SeqsUpTo(_, _)
SeqsUpTo(S, n) ==
    IF n = 0 THEN { << >> }
    ELSE LET shorter == SeqsUpTo(S, n - 1)
         IN  shorter \cup
             { Append(s, x) : s \in { t \in shorter : Len(t) = n - 1 },
                              x \in S }

\* -t takes one or more patterns (nargs='+')
TypeLists ==
    { s \in SeqsUpTo(Patterns, MaxTypes) :
        /\ s # << >>
        /\ \A i, j \in 1..Len(s) : i # j => s[i] # s[j] }

VARIABLES
    args,           \* the parsed command line: directory, types, output
    snapshot,       \* the directory tree before the run
    outExists,      \* whether the output artifact exists on disk
    outLines,       \* the lines of the output artifact on disk
    pc,             \* main()'s position
    directory,      \* main(): directory
    file_types,     \* main(): file_types
    output_file,    \* main(): output_file
    exclude_files,  \* main(): exclude_files
    walkStack,      \* os.walk: the directories still to be visited
    listed,         \* the directories whose entries the walk has read
    files_by_type,  \* search_files: files_by_type
    all_files,      \* main(): all_files
    nread,          \* create_aggregated_file: entries processed so far
    failed,         \* which of these entries could not be read
    treeStack       \* walk_dir: the active calls, innermost first

vars ==
    << args, snapshot, outExists, outLines, pc, directory, file_types,
       output_file, exclude_files, walkStack, listed, files_by_type,
       all_files, nread, failed, treeStack >>

\* One line of the output artifact.  kind tells which write produced it and
\* text is what the write interpolated; a delimiter has its width, a tree
\* line its prefix (one entry per 4-character segment) and its connector.
\* path is not part of the bytes: it is the full path of a tree line's entry.
Line(kind, text) ==
    [ kind |-> kind, text |-> text, width |-> 0, prefix |-> << >>,
      pointer |-> "", path |-> << >> ]

\* what a previous run, or anyone else, left in the output artifact
OldLines == << Line("old", << >>) >>

\* main(): args.output if args.output else <cwd>/concatenated_project.txt
OutputArg ==
    IF args.output = None THEN PathJoin(Cwd, S_concatenated_project_txt)
    ELSE args.output

\* whether a node exists
IsDirNode(n) == n \in DirNodes

IsFileNode(n) ==
    \/ n \in StaticFiles
    \/ n = ReadmeNode /\ snapshot.readme
    \/ /\ outExists
       /\ n = Resolve(OutputArg)

\* os.scandir / os.listdir of an existing directory: the names of its entries
Listing(d) ==
    LET names == IF snapshot.rev THEN Reverse(Order(d)) ELSE Order(d)
    IN  SelectSeq(names,
                  LAMBDA x : IsDirNode(Append(d, x)) \/ IsFileNode(Append(d, x)))

\* os.path.isdir
IsDir(p) == IsDirNode(Resolve(p))

Init ==
    /\ args \in [ directory : { None, Dot, S_nx, PathJoin(Cwd, S_pc_py) },
                  types : { None } \cup TypeLists,
                  output : { None, S_out_txt } ]
    /\ snapshot \in [ readme : BOOLEAN, rev : BOOLEAN, leftover : BOOLEAN ]
    /\ outExists = snapshot.leftover
    /\ outLines = IF snapshot.leftover THEN OldLines ELSE << >>
    /\ pc = "start"
    /\ directory = None
    /\ file_types = << >>
    /\ output_file = None
    /\ exclude_files = << >>
    /\ walkStack = << >>
    /\ listed = { }
    /\ files_by_type = << >>
    /\ all_files = << >>
    /\ nread = 0
    /\ failed = { }
    /\ treeStack = << >>

(***************************************************************************)
(* has_excluded_dir and search_files.                                      *)
(***************************************************************************)
\* has_excluded_dir as it would be if it compared only the last component of
\* the path with the excluded names
has_excluded_dir_last(path_str, excluded_dirs) ==
    LET parts == Split(AbsPath(Cwd, path_str))
    IN  \E ex \in excluded_dirs : parts[Len(parts)] = ex

\* has_excluded_dir(path_str, excluded_dirs)
has_excluded_dir(path_str, excluded_dirs) ==
    LET parts == Split(AbsPath(Cwd, path_str))
    IN  \E k \in 1..Len(parts) : \E ex \in excluded_dirs : parts[k] = ex

\* the test of search_files' innermost loop
MatchesType(file, file_type) ==
    EndsWith(file, Dot \o file_type) \/ file = file_type

\* `x in exclude_files` for a list
InList(x, list) == \E k \in 1..Len(list) : list[k] = x

\* the loop over file_types for one file: append file_path to the group of
\* each pattern the name satisfies
AppendMatches(groups, file, file_path, types) ==
    [ i \in 1..Len(groups) |->
        IF MatchesType(file, types[i]) THEN Append(groups[i], file_path)
        ELSE groups[i] ]

\* the loop over the files of one directory
RECURSIVE ProcessFiles(_, _, _, _, _)
ProcessFiles(root, files, groups, types, excl) ==
    IF files = << >> THEN groups
    ELSE LET file == Head(files)
             file_path == PathJoin(root, file)
             skip == InList(file_path, excl)
                     \/ has_excluded_dir(file_path, EXCLUDED_DIRS)
         IN  ProcessFiles(root, Tail(files),
                          IF skip THEN groups
                          ELSE AppendMatches(groups, file, file_path, types),
                          types, excl)

\* the body of search_files' loop for one (root, dirs, files) of os.walk
VisitRoot(root, files, groups, types, excl) ==
    IF has_excluded_dir(root, EXCLUDED_DIRS) THEN groups
    ELSE ProcessFiles(root, files, groups, types, excl)

\* insertion of x into an ascending list, after its equals
RECURSIVE Insert(_, _)
Insert(x, sorted) ==
    IF sorted = << >> THEN << x >>
    ELSE IF StrLess(x, Head(sorted)) THEN << x >> \o sorted
    ELSE << Head(sorted) >> \o Insert(x, Tail(sorted))

RECURSIVE SortFrom(_, _)
SortFrom(list, acc) ==
    IF list = << >> THEN acc ELSE SortFrom(Tail(list), Insert(Head(list), acc))

\* search_files as it would be without the sort: a group keeps walk order
list_unsorted(file_list) == file_list

\* file_list.sort(): ascending, stable
list_sort(file_list) == SortFrom(file_list, << >>)

\* [f for file_list in files_by_type for f in file_list]
RECURSIVE Flatten(_)
Flatten(groups) ==
    IF groups = << >> THEN << >> ELSE Head(groups) \o Flatten(Tail(groups))

\* the subdirectories os.walk goes on to, in listing order
SubDirs(top, names) ==
    LET dirs == SelectSeq(names, LAMBDA x : IsDirNode(Append(Resolve(top), x)))
    IN  [ k \in 1..Len(dirs) |-> PathJoin(top, dirs[k]) ]

\* the non-directory entries os.walk yields as files
NonDirs(top, names) ==
    SelectSeq(names, LAMBDA x : ~IsDirNode(Append(Resolve(top), x)))

\* main(), up to the call of search_files
MainSetup ==
    /\ pc = "start"
    /\ directory' = (IF args.directory = None THEN Cwd ELSE args.directory)
    /\ file_types' = (IF args.types = None THEN DefaultTypes ELSE args.types)
    /\ output_file' = OutputArg
    /\ exclude_files' = << OutputArg, AbsPath(Cwd, ScriptArg) >>
    /\ files_by_type' =
          [ i \in 1..Len(IF args.types = None THEN DefaultTypes ELSE args.types)
              |-> << >> ]
    /\ walkStack' = << (IF args.directory = None THEN Cwd ELSE args.directory) >>
    /\ pc' = "search"
    /\ UNCHANGED << args, snapshot, outExists, outLines, listed, all_files,
                    nread, failed, treeStack >>

\* os.walk reads the entries of the next directory, search_files' loop body
\* runs on what it yields, and the walk goes on to the subdirectories
WalkVisit ==
    /\ pc = "search"
    /\ walkStack # << >>
    /\ IsDir(Head(walkStack))
    /\ LET top == Head(walkStack)
           names == Listing(Resolve(top))
       IN  /\ listed' = listed \cup { Resolve(top) }
           /\ files_by_type' = VisitRoot(top, NonDirs(top, names), files_by_type,
                                         file_types, exclude_files)
           /\ walkStack' = SubDirs(top, names) \o Tail(walkStack)
    /\ UNCHANGED << args, snapshot, outExists, outLines, pc, directory,
                    file_types, output_file, exclude_files, all_files, nread,
                    failed, treeStack >>

\* os.walk cannot read the directory: the error is dropped (onerror is None)
\* and nothing is yielded for it
WalkError ==
    /\ pc = "search"
    /\ walkStack # << >>
    /\ ~IsDir(Head(walkStack))
    /\ walkStack' = Tail(walkStack)
    /\ UNCHANGED << args, snapshot, outExists, outLines, pc, directory,
                    file_types, output_file, exclude_files, listed,
                    files_by_type, all_files, nread, failed, treeStack >>

\* the walk is over: each group is sorted, search_files returns, and main()
\* flattens the groups
SearchReturn ==
    /\ pc = "search"
    /\ walkStack = << >>
    /\ files_by_type' =
          [ i \in 1..Len(files_by_type) |-> list_sort(files_by_type[i]) ]
    /\ all_files' =
          Flatten([ i \in 1..Len(files_by_type) |-> list_sort(files_by_type[i]) ])
    /\ pc' = "open"
    /\ UNCHANGED << args, snapshot, outExists, outLines, directory, file_types,
                    output_file, exclude_files, walkStack, listed, nread,
                    failed, treeStack >>

(***************************************************************************)
(* create_aggregated_file.                                                 *)
(***************************************************************************)
\* "-" * 60 + "\n"
DelimLine == [ Line("delim", << >>) EXCEPT !.width = DelimWidth ]

\* the except clause as it would be if the header were written before the
\* file is read: the error line follows the header of the failed entry
ErrorAfterHeader(file_path) ==
    << DelimLine,
       Line("path", file_path),
       Line("name", Basename(file_path)),
       Line("blank", << >>),
       Line("error", file_path) >>

\* f"Error reading {file_path}: {e}\n"
ErrorOutput(file_path) == << Line("error", file_path) >>

\* the four writes as they would be with the File Name line given the whole
\* path instead of os.path.basename(file_path)
FileOutputFullName(file_path, content) ==
    << DelimLine,
       Line("path", file_path),
       Line("name", file_path),
       Line("blank", << >>),
       Line("content", content) >>

\* the four writes for a file that was read
FileOutput(file_path, content) ==
    << DelimLine,
       Line("path", file_path),
       Line("name", Basename(file_path)),
       Line("blank", << >>),
       Line("content", content) >>

\* The text of a regular file: every file holds its own absolute name, so
\* that the contents of different files differ.
TextOf(node) == <<Sep>> \o JoinParts(node)

\* in_file.read(): the output artifact, read while it is open for writing,
\* yields whatever has been flushed so far: nothing, or some of the text
ReadResults(file_path) ==
    IF Resolve(file_path) = Resolve(output_file)
    THEN { << >>, << "-" >> }
    ELSE { TextOf(Resolve(file_path)) }

\* the entry the nested loops of create_aggregated_file reach next
NextEntry == Flatten(files_by_type)[nread + 1]

\* open(output_file, 'w'): the artifact is created or truncated
OpenOutput ==
    /\ pc = "open"
    /\ outExists' = TRUE
    /\ outLines' = << >>
    /\ nread' = 0
    /\ pc' = "aggregate"
    /\ UNCHANGED << args, snapshot, directory, file_types, output_file,
                    exclude_files, walkStack, listed, files_by_type, all_files,
                    failed, treeStack >>

\* one file is opened and read, and its block is written
ReadOk ==
    /\ pc = "aggregate"
    /\ nread < Len(Flatten(files_by_type))
    /\ \E content \in ReadResults(NextEntry) :
          outLines' = outLines \o FileOutput(NextEntry, content)
    /\ nread' = nread + 1
    /\ UNCHANGED << args, snapshot, outExists, pc, directory, file_types,
                    output_file, exclude_files, walkStack, listed,
                    files_by_type, all_files, failed, treeStack >>

\* open() or read() raises: the except clause writes the error line
ReadFails ==
    /\ pc = "aggregate"
    /\ nread < Len(Flatten(files_by_type))
    /\ Cardinality(failed) < MaxBad
    /\ outLines' = outLines \o ErrorOutput(NextEntry)
    /\ failed' = failed \cup { nread + 1 }
    /\ nread' = nread + 1
    /\ UNCHANGED << args, snapshot, outExists, pc, directory, file_types,
                    output_file, exclude_files, walkStack, listed,
                    files_by_type, all_files, treeStack >>

\* the loops are over and the artifact is closed
AggregateReturn ==
    /\ pc = "aggregate"
    /\ nread = Len(Flatten(files_by_type))
    /\ pc' = "structure"
    /\ UNCHANGED << args, snapshot, outExists, outLines, directory, file_types,
                    output_file, exclude_files, walkStack, listed,
                    files_by_type, all_files, nread, failed, treeStack >>

(***************************************************************************)
(* append_directory_structure.                                             *)
(***************************************************************************)
\* The connectors and the prefix segments, four characters each.  The
\* program writes box-drawing characters: TEE stands for the branch
\* connector, ELBOW for the corner connector, PIPE for the vertical-bar
\* segment and BLANK for the segment of four spaces.
TEE == "|-- "
ELBOW == "+-- "
PIPE == "|   "
BLANK == "    "

\* set(file_paths)
file_paths_set == { all_files[k] : k \in 1..Len(all_files) }

\* walk_dir's first loop as it would be without the membership test: every
\* entry outside the excluded directories is shown
ContentsUnfiltered(path) ==
    SelectSeq(Listing(Resolve(path)),
              LAMBDA name :
                 ~has_excluded_dir(PathJoin(path, name), EXCLUDED_DIRS))

\* walk_dir's first loop: the entries of path that are shown
Contents(path) ==
    SelectSeq(Listing(Resolve(path)),
              LAMBDA name :
                 LET full_path == PathJoin(path, name)
                 IN  /\ ~has_excluded_dir(full_path, EXCLUDED_DIRS)
                     /\ full_path \in file_paths_set \/ IsDir(full_path))

\* [TEE] * (len(contents) - 1) + [ELBOW] if contents else []
Pointers(contents) ==
    [ k \in 1..Len(contents) |-> IF k < Len(contents) THEN TEE ELSE ELBOW ]

\* the extension as it would be if every ancestor contributed a vertical bar
ExtensionAlwaysPipe(pointer) == PIPE

\* PIPE if pointer == TEE else BLANK
Extension(pointer) == IF pointer = TEE THEN PIPE ELSE BLANK

\* a call walk_dir(path, prefix) that has listed path and is about to write
\* its k-th entry
Frame(path, prefix) ==
    [ path |-> path, prefix |-> prefix, contents |-> Contents(path),
      pointers |-> Pointers(Contents(path)), k |-> 1 ]

\* f"{prefix}{pointer}{name}\n"
TreeLine(prefix, pointer, name, full_path) ==
    [ Line("tree", name) EXCEPT
        !.prefix = prefix, !.pointer = pointer, !.path = full_path ]

\* the header of the structure section
HeaderLines == << DelimLine, Line("heading", << >>) >>

\* the header is appended and walk_dir(base_path) lists the base directory
StructureStart ==
    /\ pc = "structure"
    /\ IsDir(directory)
    /\ outLines' = outLines \o HeaderLines
    /\ treeStack' = << Frame(directory, << >>) >>
    /\ pc' = "tree"
    /\ UNCHANGED << args, snapshot, outExists, directory, file_types,
                    output_file, exclude_files, walkStack, listed,
                    files_by_type, all_files, nread, failed >>

\* the header is appended and os.listdir(base_path) raises: main() ends with
\* the exception
StructureFails ==
    /\ pc = "structure"
    /\ ~IsDir(directory)
    /\ outLines' = outLines \o HeaderLines
    /\ pc' = "failed"
    /\ UNCHANGED << args, snapshot, outExists, directory, file_types,
                    output_file, exclude_files, walkStack, listed,
                    files_by_type, all_files, nread, failed, treeStack >>

\* walk_dir writes the line of its next entry and, if the entry is a
\* directory, calls itself on it
TreeEntry ==
    /\ pc = "tree"
    /\ treeStack # << >>
    /\ Head(treeStack).k <= Len(Head(treeStack).contents)
    /\ LET f == Head(treeStack)
           name == f.contents[f.k]
           pointer == f.pointers[f.k]
           full_path == PathJoin(f.path, name)
           caller == [ f EXCEPT !.k = f.k + 1 ]
       IN  /\ outLines' = outLines \o
                          << TreeLine(f.prefix, pointer, name, full_path) >>
           /\ treeStack' =
                 IF IsDir(full_path)
                 THEN << Frame(full_path, Append(f.prefix, Extension(pointer))),
                         caller >> \o Tail(treeStack)
                 ELSE << caller >> \o Tail(treeStack)
    /\ UNCHANGED << args, snapshot, outExists, pc, directory, file_types,
                    output_file, exclude_files, walkStack, listed,
                    files_by_type, all_files, nread, failed >>

\* a call of walk_dir has written all its entries and returns
TreeReturn ==
    /\ pc = "tree"
    /\ treeStack # << >>
    /\ Head(treeStack).k > Len(Head(treeStack).contents)
    /\ treeStack' = Tail(treeStack)
    /\ UNCHANGED << args, snapshot, outExists, outLines, pc, directory,
                    file_types, output_file, exclude_files, walkStack, listed,
                    files_by_type, all_files, nread, failed >>

\* append_directory_structure returns and main() prints its confirmation
MainReturn ==
    /\ pc = "tree"
    /\ treeStack = << >>
    /\ pc' = "done"
    /\ UNCHANGED << args, snapshot, outExists, outLines, directory, file_types,
                    output_file, exclude_files, walkStack, listed,
                    files_by_type, all_files, nread, failed, treeStack >>

Next ==
    \/ MainSetup
    \/ WalkVisit
    \/ WalkError
    \/ SearchReturn
    \/ OpenOutput
    \/ ReadOk
    \/ ReadFails
    \/ AggregateReturn
    \/ StructureStart
    \/ StructureFails
    \/ TreeEntry
    \/ TreeReturn
    \/ MainReturn

Spec == Init /\ [][Next]_vars

(***************************************************************************)
(* Vocabulary of the properties: the snapshot and the artifact as seen     *)
(* from outside the program.                                               *)
(***************************************************************************)
\* a node that is, or lies beneath, a directory named in the Exclusion Set
ExcludedNode(n) == \E k \in 1..Len(n) : n[k] \in EXCLUDED_DIRS

Last(s) == s[Len(s)]
Front(s) == SubSeq(s, 1, Len(s) - 1)
Range(s) == { s[k] : k \in 1..Len(s) }

\* the regular files of the snapshot the run starts from
SnapshotFiles ==
    StaticFiles
    \cup (IF snapshot.readme THEN { ReadmeNode } ELSE { })
    \cup (IF snapshot.leftover THEN { Resolve(OutputArg) } ELSE { })

\* node n lies beneath node d
Beneath(n, d) == Len(n) > Len(d) /\ SubSeq(n, 1, Len(d)) = d

\* the path string under which a walk that starts at the string base reaches
\* the node whose names below the base are rel
RECURSIVE PathUnder(_, _)
PathUnder(base, rel) ==
    IF rel = << >> THEN base
    ELSE PathUnder(base \o (IF Last(base) = Sep THEN << >> ELSE <<Sep>>)
                        \o Head(rel),
                   Tail(rel))

\* the entries of the content section, in order: the path of every block
\* and of every error line
EntryLines == SelectSeq(outLines, LAMBDA l : l.kind \in { "path", "error" })
EntryPaths == [ k \in 1..Len(EntryLines) |-> EntryLines[k].text ]

\* the lines of the tree, in order
TreeLines == SelectSeq(outLines, LAMBDA l : l.kind = "tree")

\* main() has got the groups back from search_files
Searched == pc \notin { "start", "search" }

\* create_aggregated_file has returned
Aggregated == pc \in { "structure", "tree", "done", "failed" }

\* create_aggregated_file has just returned, or the run is over
ContentFinal == pc \in { "structure", "done", "failed" }

(***************************************************************************)
(* C1.  Exclusion completeness: no file beneath a directory named in the   *)
(* Exclusion Set has a block or an error line in the content section or a  *)
(* line in the tree, whatever its name matches, and no such directory has  *)
(* a line in the tree.  Stated of the artifact a run leaves.               *)
(***************************************************************************)
C1_ExclusionComplete ==
    pc \in { "done", "failed" } =>
    \A k \in 1..Len(outLines) :
       LET l == outLines[k]
       IN  /\ l.kind \in { "path", "error" } => ~ExcludedNode(Resolve(l.text))
           /\ l.kind = "tree" =>
                 /\ ~ExcludedNode(Resolve(l.path))
                 /\ l.text \notin EXCLUDED_DIRS

\* a finished run over a tree in which files matching a pattern lie beneath
\* .git, whose parent directory is shown in the tree
C1_Witness ==
    /\ pc = "done"
    /\ \E i \in 1..Len(file_types) : file_types[i] = S_py
    /\ GitNode \in listed
    /\ \E k \in 1..Len(TreeLines) : Resolve(TreeLines[k].path) = SubNode
    /\ \E k \in 1..Len(EntryPaths) : Beneath(Resolve(EntryPaths[k]), SubNode)

(***************************************************************************)
(* C2.  Self/output exclusion: neither the output artifact nor the running *)
(* script is a member of a group returned by search_files.                 *)
(***************************************************************************)
C2_SelfOutputExcluded ==
    Searched =>
       \A i \in 1..Len(files_by_type) : \A k \in 1..Len(files_by_type[i]) :
          Resolve(files_by_type[i][k])
             \notin { Resolve(OutputArg), Resolve(ScriptArg) }

(***************************************************************************)
(* C3.  First match wins: a file path occurs in at most one group, and at  *)
(* most once in the flattened sequence of selected files.                  *)
(***************************************************************************)
C3_FirstMatchWins ==
    Searched =>
       /\ \A i, j \in 1..Len(files_by_type) :
             i # j => Range(files_by_type[i]) \cap Range(files_by_type[j]) = { }
       /\ \A k, l \in 1..Len(all_files) : all_files[k] = all_files[l] => k = l

(***************************************************************************)
(* C4.  Content order: the entries of the content section are the groups   *)
(* concatenated in pattern order; each group is in strictly ascending      *)
(* ordinal order of the full path and holds exactly the selectable files   *)
(* of the snapshot that satisfy its pattern, so the order is a function of *)
(* the snapshot and the pattern list and not of the listing order.         *)
(***************************************************************************)
\* the paths of the files of the snapshot that the walk from `directory`
\* reaches outside excluded directories and that are not on the exclude list
SelectablePaths ==
    IF ~IsDir(directory) THEN { }
    ELSE LET base == Resolve(directory)
             reached == { n \in SnapshotFiles :
                            Beneath(n, base) /\ ~ExcludedNode(n) }
             paths == { PathUnder(directory,
                                  SubSeq(n, Len(base) + 1, Len(n))) :
                        n \in reached }
         IN  { q \in paths : q \notin Range(exclude_files) }

ExpectedGroup(i) ==
    { q \in SelectablePaths :
        LET name == Last(Resolve(q))
            suffix == Dot \o file_types[i]
        IN  \/ name = file_types[i]
            \/ /\ Len(name) >= Len(suffix)
               /\ \A c \in 1..Len(suffix) :
                     name[Len(name) - Len(suffix) + c] = suffix[c] }

Ascending(g) == \A k \in 1..(Len(g) - 1) : StrLess(g[k], g[k + 1])

C4_ContentOrder ==
    ContentFinal =>
       /\ EntryPaths = Flatten(files_by_type)
       /\ \A i \in 1..Len(files_by_type) :
             /\ Ascending(files_by_type[i])
             /\ Range(files_by_type[i]) = ExpectedGroup(i)

\* two groups, the first with several files, and a file of the second group
\* whose path is smaller than a path of the first
C4_Witness ==
    /\ pc = "done"
    /\ Len(files_by_type) = 2
    /\ Len(files_by_type[1]) >= 2
    /\ Len(files_by_type[2]) >= 1
    /\ StrLess(files_by_type[2][1], files_by_type[1][1])
    /\ snapshot.rev
    /\ Len(EntryPaths) >= 3

(***************************************************************************)
(* C5.  An invalid base directory fails before any output: when the base   *)
(* path is not an existing directory, the output artifact is never         *)
(* created, truncated or appended to.                                      *)
(***************************************************************************)
C5_InvalidBaseLeavesOutput ==
    (pc # "start" /\ ~IsDir(directory)) =>
       /\ outExists = snapshot.leftover
       /\ outLines = (IF snapshot.leftover THEN OldLines ELSE << >>)

(***************************************************************************)
(* C6.  Best-effort continuation: while and after create_aggregated_file   *)
(* runs, the artifact holds, for the entries processed so far and in their *)
(* order, exactly one error line for each entry whose read failed and the  *)
(* complete block (delimiter, File Path, File Name, blank line, content)   *)
(* for every other entry; the stage returns only after the last entry.     *)
(***************************************************************************)
\* lines are what the entries k..n of the selected-file sequence must have
\* produced
RECURSIVE EntriesWritten(_, _, _)
EntriesWritten(lines, k, n) ==
    IF k > n THEN lines = << >>
    ELSE IF k \in failed
    THEN /\ Len(lines) >= 1
         /\ lines[1].kind = "error"
         /\ lines[1].text = all_files[k]
         /\ EntriesWritten(Tail(lines), k + 1, n)
    ELSE /\ Len(lines) >= 5
         /\ lines[1].kind = "delim" /\ lines[1].width = DelimWidth
         /\ lines[2].kind = "path" /\ lines[2].text = all_files[k]
         /\ lines[3].kind = "name"
         /\ lines[3].text = Last(Resolve(all_files[k]))
         /\ lines[4].kind = "blank"
         /\ lines[5].kind = "content"
         /\ Resolve(all_files[k]) # Resolve(output_file)
               => lines[5].text = TextOf(Resolve(all_files[k]))
         /\ EntriesWritten(SubSeq(lines, 6, Len(lines)), k + 1, n)

C6_BestEffort ==
    /\ pc \in { "aggregate", "structure" } =>
          EntriesWritten(outLines, 1, nread)
    /\ Aggregated => nread = Len(all_files) /\ failed \subseteq 1..nread
    /\ pc = "failed" => ~IsDir(directory)

\* the stage has returned after a failed read that had a readable entry
\* before it and one after it
C6_Witness ==
    /\ pc = "structure"
    /\ \E k \in failed : (k - 1) \in (1..nread) \ failed
                         /\ (k + 1) \in (1..nread) \ failed

(***************************************************************************)
(* C7 as stated.  Header kept on read failure: the error line of an entry  *)
(* follows that entry's header, so every selected file, readable or not,   *)
(* has its File Path and File Name lines in the content section.           *)
(***************************************************************************)
C7_HeaderKept ==
    Aggregated =>
       /\ \A k \in 1..Len(outLines) :
             outLines[k].kind = "error" =>
                /\ k > 1
                /\ outLines[k - 1].kind \in { "name", "blank" }
       /\ \A k \in 1..Len(all_files) :
             \E j \in 1..Len(outLines) :
                outLines[j].kind = "path" /\ outLines[j].text = all_files[k]

(***************************************************************************)
(* C7 as amended.  An entry whose read failed has its error line and       *)
(* nothing else: the error line follows the content line or the error line *)
(* of the entry before it, never a header, and the File Path and File Name *)
(* lines of the content section are those of the entries that were read.   *)
(***************************************************************************)
\* the entries among the first n that were read, in order
RECURSIVE ReadEntries(_)
ReadEntries(n) ==
    IF n = 0 THEN << >>
    ELSE IF n \in failed THEN ReadEntries(n - 1)
    ELSE Append(ReadEntries(n - 1), all_files[n])

LinesOfKind(kind) == SelectSeq(outLines, LAMBDA l : l.kind = kind)

C7_ErrorLineOnly ==
    /\ \A k \in 1..Len(outLines) :
          outLines[k].kind = "error" =>
             k = 1 \/ outLines[k - 1].kind \in { "content", "error" }
    /\ [ k \in 1..Len(LinesOfKind("path")) |-> LinesOfKind("path")[k].text ]
          = ReadEntries(nread)
    /\ Len(LinesOfKind("name")) = Len(ReadEntries(nread))
    /\ Len(LinesOfKind("error")) = Cardinality(failed)

\* the stage has returned and the read of an entry that is not the first
\* failed
C7_Witness ==
    /\ pc = "structure"
    /\ \E k \in failed : k > 1 /\ (k - 1) \notin failed

(***************************************************************************)
(* C8.  Tree/content membership: after a run, the paths of the tree lines  *)
(* that are not directories are exactly the paths that have an entry in    *)
(* the content section.                                                    *)
(***************************************************************************)
TreeFilePaths ==
    { TreeLines[k].path : k \in { j \in 1..Len(TreeLines) :
                                     ~IsDirNode(Resolve(TreeLines[j].path)) } }

C8_TreeContentMembership == pc = "done" => TreeFilePaths = Range(EntryPaths)

\* a run that selected files in the base directory and beneath it and left
\* a file of the base directory unselected
C8_Witness ==
    /\ pc = "done"
    /\ \E q \in Range(EntryPaths) : Len(Resolve(q)) = Len(Resolve(directory)) + 1
    /\ \E q \in Range(EntryPaths) : Len(Resolve(q)) > Len(Resolve(directory)) + 1
    /\ \E n \in SnapshotFiles :
          /\ Front(n) = Resolve(directory)
          /\ n \notin { Resolve(q) : q \in Range(EntryPaths) }

(***************************************************************************)
(* C9.  Excluded subtrees are never listed by the Selector: search_files   *)
(* reads the entries of no directory that is, or lies beneath, a directory *)
(* named in the Exclusion Set.                                             *)
(***************************************************************************)
C9_ExcludedNeverListed == \A n \in listed : ~ExcludedNode(n)

(***************************************************************************)
(* C10.  Tree connectors and prefixes: every tree line is the line of a    *)
(* kept entry of its directory, with the corner connector if it is the     *)
(* last kept entry and the branch connector otherwise; its prefix has one  *)
(* segment per ancestor below the base directory, blank for an ancestor    *)
(* that was the last kept entry at its level and a vertical bar otherwise; *)
(* the lines are the kept entries in listing order, each directory         *)
(* followed at once by the lines of its own subtree.  Stated of the tree   *)
(* of a finished run.                                                      *)
(***************************************************************************)
SelectedNodes == { Resolve(all_files[k]) : k \in 1..Len(all_files) }

\* the kept entries of a directory: directories outside the Exclusion Set
\* and selected files, in listing order
Kept(d) ==
    SelectSeq(Listing(d),
              LAMBDA x : \/ IsDirNode(Append(d, x)) /\ ~ExcludedNode(Append(d, x))
                         \/ Append(d, x) \in SelectedNodes)

IsLastKept(n) == Last(n) = Last(Kept(Front(n)))

\* the nodes of the subtree of directory d, each directory before its own
\* entries
RECURSIVE PreOrder(_)
RECURSIVE PreOrderOf(_, _)
PreOrderOf(d, names) ==
    IF names = << >> THEN << >>
    ELSE LET n == Append(d, Head(names))
         IN  << n >> \o (IF IsDirNode(n) THEN PreOrder(n) ELSE << >>)
                    \o PreOrderOf(d, Tail(names))

PreOrder(d) == PreOrderOf(d, Kept(d))

C10_TreeShape ==
    pc = "done" =>
    LET base == Resolve(directory)
    IN  /\ \A k \in 1..Len(TreeLines) :
              LET l == TreeLines[k]
                  n == Resolve(l.path)
              IN  /\ Beneath(n, base)
                  /\ l.text = Last(n)
                  /\ l.text \in Range(Kept(Front(n)))
                  /\ l.pointer = (IF IsLastKept(n) THEN ELBOW ELSE TEE)
                  /\ Len(l.prefix) = Len(n) - Len(base) - 1
                  /\ \A j \in 1..Len(l.prefix) :
                        l.prefix[j] =
                           (IF IsLastKept(SubSeq(n, 1, Len(base) + j))
                            THEN BLANK ELSE PIPE)
        /\ [ k \in 1..Len(TreeLines) |-> Resolve(TreeLines[k].path) ]
              = PreOrder(base)

\* a finished tree of at least four lines with a directory that is not the
\* last kept entry of the base directory and has a single kept entry of its
\* own
C10_Witness ==
    /\ pc = "done"
    /\ \E k \in 1..Len(TreeLines) :
          /\ TreeLines[k].prefix = << PIPE >>
          /\ TreeLines[k].pointer = ELBOW
    /\ \E k \in 1..Len(TreeLines) : TreeLines[k].pointer = TEE
    /\ Len(TreeLines) >= 4

====
